---- MODULE Spec2Model ----
(***************************************************************************)
(* Model of the go-trie package: the membership trie (trie.go), the value  *)
(* trie (value_trie.go) and the pattern-string decoders.                   *)
(*                                                                         *)
(* A Go string is modelled as the sequence of its code points (runes); its *)
(* bytes are computed by EncodeRune, so that byte offsets and byte lengths *)
(* are what the code sees.  A trie node is a record whose children field   *)
(* is a function from runes to nodes (Go's map[int]*Trie).                 *)
(***************************************************************************)
EXTENDS Integers, Sequences, FiniteSets, TLC

VARIABLES
  kind,    \* which type the run constructs and exercises: "Trie" or "ValueTrie"
  trie,    \* the root of the membership trie (NewTrie() and the calls made on it)
  vtrie,   \* the root of the value trie (NewValueTrie() and the calls made on it)
  last,    \* the last call: its name, arguments, result and the root before it
  nops,    \* number of mutating calls made so far
  call     \* the insertion in progress, its values channel and its goroutine

vars == <<kind, trie, vtrie, last, nops, call>>

----
(* Bounds of the model. *)

\* longest string (in runes) handed to Add / Remove / Contains
MaxLen == 2

\* largest hyphenation value handed to ValueTrie.Add
MaxVal == 1

\* longest pattern string (in runes) handed to AddPatternString
MaxPatLen == 3

\* longest query string (in runes) handed to the substring searches
MaxQuery == 3

\* number of mutating calls in one run
MaxOps == 3

\* longest pattern string (in runes) handed to the first AddPatternString
MaxFirstPatLen == 5

\* number of insertions in one run of the step-by-step model
MaxCalls == 2

\* the letters of the model: 'a' and 'b'
Letters == {97, 98}

\* a letter whose UTF-8 encoding takes two bytes: U+00E9
WideLetters == {233}

\* the digit characters used in pattern strings: '1' and '5'
PatDigits == {49, 53}

RECURSIVE SeqsUpTo(_, _)
SeqsUpTo(S, n) ==
  IF n = 0 THEN {<<>>}
  ELSE LET shorter == SeqsUpTo(S, n - 1)
       IN shorter \cup {Append(q, x) : q \in {t \in shorter : Len(t) = n - 1}, x \in S}

Strings == SeqsUpTo(Letters, MaxLen)

Values == SeqsUpTo(0..MaxVal, MaxLen + 1)

Patterns == SeqsUpTo(Letters \cup PatDigits, MaxPatLen)

Queries == SeqsUpTo(Letters, MaxQuery)

\* the inputs of the first call on a new value trie: longer strings, larger
\* values, and patterns that also hold the digit '0' and the two-byte letter
FirstStrings == SeqsUpTo(Letters, MaxLen + 1)

FirstValues == SeqsUpTo(0..(MaxVal + 1), MaxLen + 2)

\* the inputs of the step-by-step insertions: value sequences of every length
\* up to MaxLen + 1, patterns over one letter and one digit
ChanValues == SeqsUpTo({MaxVal}, MaxLen + 1)

ChanPatterns == SeqsUpTo({97, 53}, MaxPatLen)

FirstPatterns == SeqsUpTo(Letters \cup WideLetters \cup PatDigits \cup {48}, MaxFirstPatLen)

----
(* Strings, runes and bytes. *)

\* utf8.EncodeRune for code points below U+0800
EncodeRune(r) == IF r < 128 THEN <<r>> ELSE <<192 + (r \div 64), 128 + (r % 64)>>

RECURSIVE Bytes(_)
Bytes(s) == IF s = <<>> THEN <<>> ELSE EncodeRune(Head(s)) \o Bytes(Tail(s))

\* len(s): the byte length of a Go string
ByteLen(s) == Len(Bytes(s))

\* unicode.IsDigit on the Latin-1 range, where the runes of the model lie
IsDigit(r) == 48 <= r /\ r <= 57

\* utf8.DecodeRune([]byte{'0'})
rune0 == 48

IsPrefix(p, s) == Len(p) <= Len(s) /\ SubSeq(s, 1, Len(p)) = p

Prefixes(s) == {SubSeq(s, 1, k) : k \in 0..Len(s)}

----
(* The membership trie (trie.go). *)

NoChildren == [k \in {} |-> 0]

NewTrie == [leaf |-> FALSE, children |-> NoChildren]

\* addRunes flipping the leaf flag of the last node instead of setting it
RECURSIVE Trie_addRunes_ToggleLeaf(_, _)
Trie_addRunes_ToggleLeaf(p, r) ==
  IF r = <<>> THEN [p EXCEPT !.leaf = ~p.leaf]
  ELSE LET rune == Head(r)
           n == IF rune \in DOMAIN p.children THEN p.children[rune] ELSE NewTrie
       IN [p EXCEPT !.children = (rune :> Trie_addRunes_ToggleLeaf(n, Tail(r))) @@ p.children]

RECURSIVE Trie_addRunes(_, _)
Trie_addRunes(p, r) ==
  IF r = <<>> THEN [p EXCEPT !.leaf = TRUE]
  ELSE LET rune == Head(r)
           n == IF rune \in DOMAIN p.children THEN p.children[rune] ELSE NewTrie
       IN [p EXCEPT !.children = (rune :> Trie_addRunes(n, Tail(r))) @@ p.children]

Trie_Add(p, s) == IF ByteLen(s) = 0 THEN p ELSE Trie_addRunes(p, s)

\* removeRunes that clears the leaf flag and never prunes
RECURSIVE Trie_removeRunes_NoPrune(_, _)
Trie_removeRunes_NoPrune(p, r) ==
  IF r = <<>> THEN [node |-> [p EXCEPT !.leaf = FALSE], empty |-> FALSE]
  ELSE LET rune == Head(r)
       IN IF rune \in DOMAIN p.children
          THEN LET res == Trie_removeRunes_NoPrune(p.children[rune], Tail(r))
               IN [node |-> [p EXCEPT !.children[rune] = res.node], empty |-> FALSE]
          ELSE [node |-> p, empty |-> FALSE]

\* returns the node after the call and the call's result
RECURSIVE Trie_removeRunes(_, _)
Trie_removeRunes(p, r) ==
  IF r = <<>>
  THEN [node |-> [p EXCEPT !.leaf = FALSE], empty |-> DOMAIN p.children = {}]
  ELSE LET rune == Head(r)
       IN IF rune \in DOMAIN p.children
          THEN LET res == Trie_removeRunes(p.children[rune], Tail(r))
                   kids == IF res.empty
                           THEN [k \in DOMAIN p.children \ {rune} |-> p.children[k]]
                           ELSE [p.children EXCEPT ![rune] = res.node]
               IN [node |-> [p EXCEPT !.children = kids], empty |-> DOMAIN kids = {}]
          ELSE [node |-> p, empty |-> DOMAIN p.children = {}]

Trie_Remove(p, s) ==
  IF ByteLen(s) = 0 THEN [node |-> p, empty |-> DOMAIN p.children = {}]
  ELSE Trie_removeRunes(p, s)

\* includes without the test of the leaf flag
RECURSIVE Trie_includes_PathOnly(_, _)
Trie_includes_PathOnly(p, r) ==
  IF r = <<>> THEN TRUE
  ELSE IF Head(r) \notin DOMAIN p.children THEN FALSE
  ELSE Trie_includes_PathOnly(p.children[Head(r)], Tail(r))

RECURSIVE Trie_includes(_, _)
Trie_includes(p, r) ==
  IF r = <<>> THEN p.leaf
  ELSE IF Head(r) \notin DOMAIN p.children THEN FALSE
  ELSE Trie_includes(p.children[Head(r)], Tail(r))

Trie_Contains(p, s) == IF ByteLen(s) = 0 THEN FALSE ELSE Trie_includes(p, s)

\* Size counting the children of the root only
Trie_Size_ChildrenOnly(p) == Cardinality(DOMAIN p.children)

RECURSIVE Trie_Size(_)
Trie_Size(p) ==
  LET RECURSIVE below(_)
      below(keys) ==
        IF keys = {} THEN 0
        ELSE LET k == CHOOSE x \in keys : TRUE
             IN Trie_Size(p.children[k]) + below(keys \ {k})
  IN Cardinality(DOMAIN p.children) + below(DOMAIN p.children)

\* the strings buildMembers collects (Members sorts them afterwards)
RECURSIVE Trie_buildMembers(_, _)
Trie_buildMembers(p, prefix) ==
  (IF p.leaf THEN {prefix} ELSE {})
  \cup UNION {Trie_buildMembers(p.children[k], Append(prefix, k)) : k \in DOMAIN p.children}

----
(* The value trie (value_trie.go). *)

NewValueTrie == [value |-> 0, prefixValue |-> 0, leaf |-> FALSE, children |-> NoChildren]

\* <-iter: the next value of the channel; once the producer has sent everything
\* and closed the channel, a receive yields the zero value
Recv(iter) == IF iter = <<>> THEN 0 ELSE Head(iter)

\* the channel after that receive
AfterRecv(iter) == IF iter = <<>> THEN <<>> ELSE Tail(iter)

\* addRunes storing the received value in the node whether it is new or not
RECURSIVE ValueTrie_addRunes_Overwrite(_, _, _, _)
ValueTrie_addRunes_Overwrite(p, r, iter, hasPrefix) ==
  IF r = <<>> THEN [p EXCEPT !.leaf = TRUE]
  ELSE LET rune == Head(r)
           val == Recv(iter)
           it1 == AfterRecv(iter)
           fresh == rune \notin DOMAIN p.children
           n == IF ~fresh THEN [p.children[rune] EXCEPT !.value = val]
                ELSE IF hasPrefix
                     THEN [NewValueTrie EXCEPT !.prefixValue = val, !.value = Recv(it1)]
                     ELSE [NewValueTrie EXCEPT !.value = val]
           it2 == IF fresh /\ hasPrefix THEN AfterRecv(it1) ELSE it1
       IN [p EXCEPT !.children =
                      (rune :> ValueTrie_addRunes_Overwrite(n, Tail(r), it2, FALSE))
                      @@ p.children]

\* iter holds the values the producer goroutine sends, in order
RECURSIVE ValueTrie_addRunes(_, _, _, _)
ValueTrie_addRunes(p, r, iter, hasPrefix) ==
  IF r = <<>> THEN [p EXCEPT !.leaf = TRUE]
  ELSE LET rune == Head(r)
           val == Recv(iter)
           it1 == AfterRecv(iter)
           fresh == rune \notin DOMAIN p.children
           n == IF ~fresh THEN p.children[rune]
                ELSE IF hasPrefix
                     THEN [NewValueTrie EXCEPT !.prefixValue = val, !.value = Recv(it1)]
                     ELSE [NewValueTrie EXCEPT !.value = val]
           it2 == IF fresh /\ hasPrefix THEN AfterRecv(it1) ELSE it1
       IN [p EXCEPT !.children =
                      (rune :> ValueTrie_addRunes(n, Tail(r), it2, FALSE)) @@ p.children]

hasPrefixValue(s, v) == Len(v) > Len(s)

\* utf8.DecodeRuneInString of the empty string is RuneError, not a digit
patternHasPrefixValue(s) == s # <<>> /\ IsDigit(Head(s))

ValueTrie_Add(p, s, v) ==
  IF ByteLen(s) = 0 THEN p ELSE ValueTrie_addRunes(p, s, v, hasPrefixValue(s, v))

\* patternSends looking at s[pos] instead of s[pos+1] for the digit
RECURSIVE patternSends_NoLookahead(_, _, _)
patternSends_NoLookahead(s, i, pos) ==
  IF i > Len(s) THEN <<>>
  ELSE LET rune == s[i]
           width == Len(EncodeRune(rune))
           rest == patternSends_NoLookahead(s, i + 1, pos + width)
       IN IF IsDigit(rune)
          THEN (IF pos = 0 THEN <<rune - rune0>> ELSE <<>>) \o rest
          ELSE IF pos < ByteLen(s) - 1
               THEN LET next == Bytes(s)[pos + 1]
                    IN (IF IsDigit(next) THEN <<next - rune0>> ELSE <<0>>) \o rest
               ELSE rest

\* the values AddPatternString's goroutine sends for the runes s[i..], the
\* i-th rune starting at byte offset pos
RECURSIVE patternSends(_, _, _)
patternSends(s, i, pos) ==
  IF i > Len(s) THEN <<>>
  ELSE LET rune == s[i]
           width == Len(EncodeRune(rune))
           rest == patternSends(s, i + 1, pos + width)
       IN IF IsDigit(rune)
          THEN (IF pos = 0 THEN <<rune - rune0>> ELSE <<>>) \o rest
          ELSE IF pos < ByteLen(s) - 1
               THEN LET next == Bytes(s)[pos + 2]
                    IN (IF IsDigit(next) THEN <<next - rune0>> ELSE <<0>>) \o rest
               ELSE rest

\* strings.Map dropping the digits
pure(s) == SelectSeq(s, LAMBDA r : ~IsDigit(r))

ValueTrie_AddPatternString(p, s) ==
  ValueTrie_addRunes(p, pure(s), patternSends(s, 1, 0), patternHasPrefixValue(s))

RECURSIVE ValueTrie_removeRunes(_, _)
ValueTrie_removeRunes(p, r) ==
  IF r = <<>>
  THEN [node |-> [p EXCEPT !.leaf = FALSE], empty |-> DOMAIN p.children = {}]
  ELSE LET rune == Head(r)
       IN IF rune \in DOMAIN p.children
          THEN LET res == ValueTrie_removeRunes(p.children[rune], Tail(r))
                   kids == IF res.empty
                           THEN [k \in DOMAIN p.children \ {rune} |-> p.children[k]]
                           ELSE [p.children EXCEPT ![rune] = res.node]
               IN [node |-> [p EXCEPT !.children = kids], empty |-> DOMAIN kids = {}]
          ELSE [node |-> p, empty |-> DOMAIN p.children = {}]

ValueTrie_Remove(p, s) ==
  IF ByteLen(s) = 0 THEN [node |-> p, empty |-> DOMAIN p.children = {}]
  ELSE ValueTrie_removeRunes(p, s)

RECURSIVE ValueTrie_includes(_, _)
ValueTrie_includes(p, r) ==
  IF r = <<>> THEN p.leaf
  ELSE IF Head(r) \notin DOMAIN p.children THEN FALSE
  ELSE ValueTrie_includes(p.children[Head(r)], Tail(r))

ValueTrie_Contains(p, s) == IF ByteLen(s) = 0 THEN FALSE ELSE ValueTrie_includes(p, s)

\* getValues that never pushes the prefix value
RECURSIVE ValueTrie_getValues_NoPrefix(_, _, _)
ValueTrie_getValues_NoPrefix(p, r, v) ==
  IF r = <<>> THEN [values |-> v, ok |-> p.leaf]
  ELSE IF Head(r) \notin DOMAIN p.children THEN [values |-> v, ok |-> FALSE]
  ELSE LET child == p.children[Head(r)]
       IN ValueTrie_getValues_NoPrefix(child, Tail(r), Append(v, child.value))

\* returns the vector after the call and the call's result
RECURSIVE ValueTrie_getValues(_, _, _)
ValueTrie_getValues(p, r, v) ==
  IF r = <<>> THEN [values |-> v, ok |-> p.leaf]
  ELSE IF Head(r) \notin DOMAIN p.children THEN [values |-> v, ok |-> FALSE]
  ELSE LET child == p.children[Head(r)]
           v1 == IF child.prefixValue # 0 THEN Append(v, child.prefixValue) ELSE v
       IN ValueTrie_getValues(child, Tail(r), Append(v1, child.value))

ValuesForString(p, s) == ValueTrie_getValues(p, s, <<>>)

RECURSIVE ValueTrie_Size(_)
ValueTrie_Size(p) ==
  LET RECURSIVE below(_)
      below(keys) ==
        IF keys = {} THEN 0
        ELSE LET k == CHOOSE x \in keys : TRUE
             IN ValueTrie_Size(p.children[k]) + below(keys \ {k})
  IN Cardinality(DOMAIN p.children) + below(DOMAIN p.children)

\* the strings buildMembers(``, false, false) collects
RECURSIVE ValueTrie_buildMembers(_, _)
ValueTrie_buildMembers(p, prefix) ==
  (IF p.leaf THEN {prefix} ELSE {})
  \cup UNION {ValueTrie_buildMembers(p.children[k], Append(prefix, k)) :
                k \in DOMAIN p.children}

\* the strings buildMembers(``, true, includeZeroes) collects
RECURSIVE ValueTrie_buildPatternMembers(_, _, _)
ValueTrie_buildPatternMembers(p, prefix, includeZeroes) ==
  (IF p.leaf THEN {prefix} ELSE {})
  \cup UNION {LET child == p.children[k]
                  s1 == Append(prefix, k)
                  s2 == IF child.prefixValue # 0
                        THEN Append(s1, rune0 + child.prefixValue) ELSE s1
                  s3 == IF child.value # 0 \/ includeZeroes
                        THEN Append(s2, rune0 + child.value) ELSE s2
              IN ValueTrie_buildPatternMembers(child, s3, includeZeroes) :
                k \in DOMAIN p.children}

\* the strings of PatternMembers(includeZeroes), before they are sorted
PatternMembers(p, includeZeroes) == ValueTrie_buildPatternMembers(p, <<>>, includeZeroes)

\* the loop of LongestSubstring stopping at the first terminal node it reaches
RECURSIVE longestFrom_StopAtMember(_, _, _, _)
longestFrom_StopAtMember(p, s, i, v) ==
  IF i > Len(s) THEN [str |-> s, values |-> v]
  ELSE IF p.leaf \/ s[i] \notin DOMAIN p.children
       THEN [str |-> SubSeq(s, 1, i - 1), values |-> v]
  ELSE LET child == p.children[s[i]]
           v1 == IF child.prefixValue # 0 THEN Append(v, child.prefixValue) ELSE v
       IN longestFrom_StopAtMember(child, s, i + 1, Append(v1, child.value))

\* the loop of LongestSubstring from the i-th rune of s on, v accumulated so far
RECURSIVE longestFrom(_, _, _, _)
longestFrom(p, s, i, v) ==
  IF i > Len(s) THEN [str |-> s, values |-> v]
  ELSE IF s[i] \notin DOMAIN p.children THEN [str |-> SubSeq(s, 1, i - 1), values |-> v]
  ELSE LET child == p.children[s[i]]
           v1 == IF child.prefixValue # 0 THEN Append(v, child.prefixValue) ELSE v
       IN longestFrom(child, s, i + 1, Append(v1, child.value))

LongestSubstring(p, s) == longestFrom(p, s, 1, <<>>)

----
(* The multi-match searches.  Their code is not part of the sources at     *)
(* hand; they are modelled from the specification: every start offset of   *)
(* s is scanned left to right, and from each offset every terminal node    *)
(* passed on the shared path is reported with the string consumed to reach *)
(* it and the values accumulated as in ValuesForString.                    *)

\* the matches on the path of r below p, shortest first
RECURSIVE matchesFrom(_, _, _, _)
matchesFrom(p, r, consumed, v) ==
  IF r = <<>> THEN <<>>
  ELSE IF Head(r) \notin DOMAIN p.children THEN <<>>
  ELSE LET child == p.children[Head(r)]
           v1 == IF child.prefixValue # 0 THEN Append(v, child.prefixValue) ELSE v
           v2 == Append(v1, child.value)
           c2 == Append(consumed, Head(r))
       IN (IF child.leaf THEN <<[str |-> c2, values |-> v2]>> ELSE <<>>)
          \o matchesFrom(child, Tail(r), c2, v2)

\* a scan that stops after the first start offset
scanFrom_FirstOffsetOnly(p, s, i) ==
  IF i >= Len(s) THEN <<>>
  ELSE matchesFrom(p, SubSeq(s, i + 1, Len(s)), <<>>, <<>>)

\* the matches that start at offsets i, i+1, ... of s (offsets count runes from 0)
RECURSIVE scanFrom(_, _, _)
scanFrom(p, s, i) ==
  IF i >= Len(s) THEN <<>>
  ELSE matchesFrom(p, SubSeq(s, i + 1, Len(s)), <<>>, <<>>) \o scanFrom(p, s, i + 1)

AllSubstringsAndValues(p, s) == scanFrom(p, s, 0)

AllSubstrings(p, s) ==
  LET found == AllSubstringsAndValues(p, s) IN [k \in 1..Len(found) |-> found[k].str]

----
(* Trie.AddPatternString of the later revision (stored beside the tests):  *)
(* it decodes the pattern into one slice and stores the slice at the leaf. *)

\* the slice v built for the runes s[i..], the i-th rune at byte offset pos
RECURSIVE patternSlice(_, _, _)
patternSlice(s, i, pos) ==
  IF i > Len(s) THEN <<>>
  ELSE LET r == s[i]
           width == Len(EncodeRune(r))
           rest == patternSlice(s, i + 1, pos + width)
       IN IF IsDigit(r)
          THEN (IF pos = 0 THEN <<rune0>> ELSE <<>>) \o rest
          ELSE IF pos < ByteLen(s) - 1
               THEN LET next == Bytes(s)[pos + 2]
                    IN (IF IsDigit(next) THEN <<next - rune0>> ELSE <<0>>) \o rest
               ELSE <<0>> \o rest

----
(* ValueTrie.Add and ValueTrie.AddPatternString step by step: the caller   *)
(* walks the trie in addRunes and receives each value from the channel     *)
(* iter, a goroutine sends the values and closes the channel, and the      *)
(* caller closes the channel again when addRunes has returned.             *)

\* make(chan int, 100) in iterate
iterCap == 100

\* make(chan int, 40) in AddPatternString
patternCap == 40

\* no insertion in progress and no goroutine started
NoCall ==
  [pc |-> "idle", path |-> <<>>, rest |-> <<>>, hasPrefix |-> FALSE, held |-> 0,
   buf |-> <<>>, cap |-> 0, closed |-> FALSE, closes |-> 0, lateSends |-> 0,
   prod |-> "none", pending |-> <<>>]

\* root p with the node at path replaced by n (created if it was absent)
RECURSIVE PutAt(_, _, _)
PutAt(p, path, n) ==
  IF path = <<>> THEN n
  ELSE LET rune == Head(path)
           child == IF rune \in DOMAIN p.children THEN p.children[rune] ELSE NewValueTrie
       IN [p EXCEPT !.children = (rune :> PutAt(child, Tail(path), n)) @@ p.children]

\* the node at path, which exists
RECURSIVE At(_, _)
At(p, path) == IF path = <<>> THEN p ELSE At(p.children[Head(path)], Tail(path))

\* addRunes entered on the node at path with the runes rest left in the
\* reader: at the end of the reader the node becomes a leaf and addRunes
\* returns to the close; otherwise the caller goes on to val := <-iter
Arrive(c, root, path, rest, hasPrefix) ==
  IF rest = <<>>
  THEN [call |-> [c EXCEPT !.pc = "close", !.path = path, !.rest = rest,
                           !.hasPrefix = FALSE],
        root |-> PutAt(root, path, [At(root, path) EXCEPT !.leaf = TRUE])]
  ELSE [call |-> [c EXCEPT !.pc = "recv", !.path = path, !.rest = rest,
                           !.hasPrefix = hasPrefix],
        root |-> root]

\* the program runs: neither the caller nor the goroutine has panicked
Running == call.pc # "panic" /\ call.prod # "panic"

\* a receive from iter can proceed: a value is buffered or the channel is closed
CanRecv == call.buf # <<>> \/ call.closed

\* the value that receive yields and the buffer after it
RecvVal == IF call.buf # <<>> THEN Head(call.buf) ELSE 0

RecvBuf == IF call.buf # <<>> THEN Tail(call.buf) ELSE <<>>

\* the caller enters ValueTrie.Add(s, v): iterate(v) starts the goroutine, and
\* addRunes runs up to its first receive
StartAdd(s, v) ==
  /\ kind = "ValueTrie"
  /\ Running /\ call.pc = "idle" /\ call.prod # "running"
  /\ nops < MaxCalls
  /\ nops' = nops + 1
  /\ last' = [op |-> "Add", s |-> s, v |-> v, ret |-> FALSE, pre |-> vtrie]
  /\ IF ByteLen(s) = 0
     THEN /\ call' = NoCall
          /\ vtrie' = vtrie
     ELSE LET c == [NoCall EXCEPT !.cap = iterCap, !.prod = "running", !.pending = v]
              a == Arrive(c, vtrie, <<>>, s, hasPrefixValue(s, v))
          IN /\ call' = a.call
             /\ vtrie' = a.root
  /\ UNCHANGED <<kind, trie>>

\* the caller enters ValueTrie.AddPatternString(s): the goroutine is started
\* with the values the pattern decodes to, and addRunes runs up to its
\* first receive
StartAddPatternString(s) ==
  /\ kind = "ValueTrie"
  /\ Running /\ call.pc = "idle" /\ call.prod # "running"
  /\ nops < MaxCalls
  /\ nops' = nops + 1
  /\ last' = [op |-> "AddPatternString", s |-> s, v |-> <<>>, ret |-> FALSE, pre |-> vtrie]
  /\ LET c == [NoCall EXCEPT !.cap = patternCap, !.prod = "running",
                              !.pending = patternSends(s, 1, 0)]
         a == Arrive(c, vtrie, <<>>, pure(s), patternHasPrefixValue(s))
     IN /\ call' = a.call
        /\ vtrie' = a.root
  /\ UNCHANGED <<kind, trie>>

\* val := <-iter in addRunes, and what follows it up to the next receive
CallerRecv ==
  /\ Running /\ call.pc = "recv" /\ CanRecv
  /\ LET val == RecvVal
         c == [call EXCEPT !.buf = RecvBuf]
         rune == Head(call.rest)
         p == At(vtrie, call.path)
         down == Append(call.path, rune)
     IN IF rune \in DOMAIN p.children
        THEN LET a == Arrive(c, vtrie, down, Tail(call.rest), FALSE)
             IN call' = a.call /\ vtrie' = a.root
        ELSE IF call.hasPrefix
        THEN /\ call' = [c EXCEPT !.pc = "recv2", !.held = val]
             /\ vtrie' = vtrie
        ELSE LET n == [NewValueTrie EXCEPT !.value = val]
                 a == Arrive(c, PutAt(vtrie, down, n), down, Tail(call.rest), FALSE)
             IN call' = a.call /\ vtrie' = a.root
  /\ UNCHANGED <<kind, trie, last, nops>>

\* val = <-iter after n.prefixValue = val, for a new first node
CallerRecvAfterPrefix ==
  /\ Running /\ call.pc = "recv2" /\ CanRecv
  /\ LET c == [call EXCEPT !.buf = RecvBuf, !.held = 0]
         down == Append(call.path, Head(call.rest))
         n == [NewValueTrie EXCEPT !.prefixValue = call.held, !.value = RecvVal]
         a == Arrive(c, PutAt(vtrie, down, n), down, Tail(call.rest), FALSE)
     IN call' = a.call /\ vtrie' = a.root
  /\ UNCHANGED <<kind, trie, last, nops>>

\* close(iter) by the caller after addRunes has returned; closing a channel
\* that is closed already is ignored by the runtime the package was written
\* for and panics in later ones
CallerClose ==
  /\ Running /\ call.pc = "close"
  /\ IF call.closed
     THEN \/ call' = [call EXCEPT !.pc = "idle", !.closes = @ + 1]
          \/ call' = [call EXCEPT !.pc = "panic", !.closes = @ + 1]
     ELSE call' = [call EXCEPT !.pc = "idle", !.closed = TRUE, !.closes = @ + 1]
  /\ UNCHANGED <<kind, trie, vtrie, last, nops>>

\* iter <- value in the goroutine; a send on a closed channel is dropped by
\* the runtime the package was written for and panics in later ones
ProducerSend ==
  /\ Running /\ call.prod = "running"
  /\ call.pending # <<>>
  /\ Len(call.buf) < call.cap
  /\ IF call.closed
     THEN \/ call' = [call EXCEPT !.pending = Tail(@), !.lateSends = @ + 1]
          \/ call' = [call EXCEPT !.prod = "panic", !.lateSends = @ + 1]
     ELSE call' = [call EXCEPT !.pending = Tail(@), !.buf = Append(@, Head(call.pending))]
  /\ UNCHANGED <<kind, trie, vtrie, last, nops>>

\* close(iter) at the end of the goroutine
ProducerClose ==
  /\ Running /\ call.prod = "running"
  /\ call.pending = <<>>
  /\ IF call.closed
     THEN \/ call' = [call EXCEPT !.prod = "done", !.closes = @ + 1]
          \/ call' = [call EXCEPT !.prod = "panic", !.closes = @ + 1]
     ELSE call' = [call EXCEPT !.prod = "done", !.closed = TRUE, !.closes = @ + 1]
  /\ UNCHANGED <<kind, trie, vtrie, last, nops>>

----
\* the state after NewTrie() or NewValueTrie(): no call made yet
Init ==
  /\ kind \in {"Trie", "ValueTrie"}
  /\ trie = NewTrie
  /\ vtrie = NewValueTrie
  /\ last = [op |-> "new", s |-> <<>>, v |-> <<>>, ret |-> FALSE,
             pre |-> IF kind = "Trie" THEN NewTrie ELSE NewValueTrie]
  /\ nops = 0
  /\ call = NoCall

\* Trie.Add(s)
Add(s) ==
  /\ kind = "Trie"
  /\ nops < MaxOps
  /\ trie' = Trie_Add(trie, s)
  /\ last' = [op |-> "Add", s |-> s, v |-> <<>>, ret |-> FALSE, pre |-> trie]
  /\ nops' = nops + 1
  /\ UNCHANGED <<kind, vtrie, call>>

\* Trie.Remove(s)
Remove(s) ==
  /\ kind = "Trie"
  /\ nops < MaxOps
  /\ LET res == Trie_Remove(trie, s)
     IN /\ trie' = res.node
        /\ last' = [op |-> "Remove", s |-> s, v |-> <<>>, ret |-> res.empty, pre |-> trie]
  /\ nops' = nops + 1
  /\ UNCHANGED <<kind, vtrie, call>>

\* Trie.AddPatternString(s) of the later revision: last.v is the slice it
\* stores at the leaf of pure(s)
AddPatternString(s) ==
  /\ kind = "Trie"
  /\ nops < MaxOps
  /\ trie' = Trie_Add(trie, pure(s))
  /\ last' = [op |-> "AddPatternString", s |-> s, v |-> patternSlice(s, 1, 0),
              ret |-> FALSE, pre |-> trie]
  /\ nops' = nops + 1
  /\ UNCHANGED <<kind, vtrie, call>>

\* ValueTrie.Add(s, v)
ValueAdd(s, v) ==
  /\ kind = "ValueTrie"
  /\ nops < MaxOps
  /\ vtrie' = ValueTrie_Add(vtrie, s, v)
  /\ last' = [op |-> "Add", s |-> s, v |-> v, ret |-> FALSE, pre |-> vtrie]
  /\ nops' = nops + 1
  /\ UNCHANGED <<kind, trie, call>>

\* ValueTrie.AddPatternString(s)
ValueAddPatternString(s) ==
  /\ kind = "ValueTrie"
  /\ nops < MaxOps
  /\ vtrie' = ValueTrie_AddPatternString(vtrie, s)
  /\ last' = [op |-> "AddPatternString", s |-> s, v |-> <<>>, ret |-> FALSE, pre |-> vtrie]
  /\ nops' = nops + 1
  /\ UNCHANGED <<kind, trie, call>>

\* ValueTrie.Remove(s)
ValueRemove(s) ==
  /\ kind = "ValueTrie"
  /\ nops < MaxOps
  /\ LET res == ValueTrie_Remove(vtrie, s)
     IN /\ vtrie' = res.node
        /\ last' = [op |-> "Remove", s |-> s, v |-> <<>>, ret |-> res.empty, pre |-> vtrie]
  /\ nops' = nops + 1
  /\ UNCHANGED <<kind, trie, call>>

Next ==
  \/ \E s \in Strings : Add(s)
  \/ \E s \in Strings : Remove(s)
  \/ \E s \in Patterns : AddPatternString(s)
  \/ \E s \in Patterns : ValueAddPatternString(s)
  \/ \E s \in Strings : \E v \in Values : ValueAdd(s, v)
  \/ \E s \in Strings : ValueRemove(s)

Spec == Init /\ [][Next]_vars

\* a value trie filled from pattern strings only, as a pattern table is loaded
InitValueTrie == Init /\ kind = "ValueTrie"

NextPatterns ==
  \/ \E s \in Patterns : ValueAddPatternString(s)
  \/ \E s \in Strings : ValueRemove(s)

SpecPatterns == InitValueTrie /\ [][NextPatterns]_vars

\* the first insertion into a new value trie, over the larger input sets
NextFirstCall ==
  \/ nops = 0 /\ \E s \in FirstPatterns : ValueAddPatternString(s)
  \/ nops = 0 /\ \E s \in FirstStrings : \E v \in FirstValues : ValueAdd(s, v)

SpecFirstCall == InitValueTrie /\ [][NextFirstCall]_vars

\* a membership trie under Add and Remove only
InitTrie == Init /\ kind = "Trie"

NextMembership ==
  \/ \E s \in Strings : Add(s)
  \/ \E s \in Strings : Remove(s)

SpecMembership == InitTrie /\ [][NextMembership]_vars

\* insertions into a value trie with the caller and the goroutine of each
\* insertion interleaved step by step
NextChan ==
  \/ \E s \in Strings : \E v \in ChanValues : StartAdd(s, v)
  \/ \E s \in ChanPatterns : StartAddPatternString(s)
  \/ CallerRecv
  \/ CallerRecvAfterPrefix
  \/ CallerClose
  \/ ProducerSend
  \/ ProducerClose

SpecChan == InitValueTrie /\ [][NextChan]_vars

----
(* Vocabulary of the properties. *)

\* the root the run exercises
Cur == IF kind = "Trie" THEN trie ELSE vtrie

ContainsOf(p, s) == IF kind = "Trie" THEN Trie_Contains(p, s) ELSE ValueTrie_Contains(p, s)

SizeOf(p) == IF kind = "Trie" THEN Trie_Size(p) ELSE ValueTrie_Size(p)

MembersOf(p) ==
  IF kind = "Trie" THEN Trie_buildMembers(p, <<>>) ELSE ValueTrie_buildMembers(p, <<>>)

\* the path of s exists below p
RECURSIVE HasPath(_, _)
HasPath(p, s) ==
  s = <<>> \/ (Head(s) \in DOMAIN p.children /\ HasPath(p.children[Head(s)], Tail(s)))

\* the node at the end of the path of s (which exists)
RECURSIVE NodeAt(_, _)
NodeAt(p, s) == IF s = <<>> THEN p ELSE NodeAt(p.children[Head(s)], Tail(s))

\* the paths of all nodes below p
RECURSIVE PathsBelow(_, _)
PathsBelow(p, prefix) ==
  UNION {{Append(prefix, k)} \cup PathsBelow(p.children[k], Append(prefix, k)) :
           k \in DOMAIN p.children}

Paths(p) == PathsBelow(p, <<>>)

IsCall(name) == last.op = name

\* the last call was made on a freshly constructed trie
OnEmpty == last.pre = (IF kind = "Trie" THEN NewTrie ELSE NewValueTrie)

\* the non-empty prefixes of s that are on the path of no other member of p
UniqueTo(p, s) ==
  {q \in Prefixes(s) \ {<<>>} : \A t \in MembersOf(p) \ {s} : ~IsPrefix(q, t)}

----
(* C1: Remove(s) of a member s deletes only the nodes of s's path that lie *)
(* on no other member's path: every other member is still contained after *)
(* the call, and Size() drops by exactly the number of nodes unique to s.  *)
C1_RemoveKeepsOtherMembers ==
  (IsCall("Remove") /\ ContainsOf(last.pre, last.s)) =>
     /\ \A t \in MembersOf(last.pre) \ {last.s} : ContainsOf(Cur, t)
     /\ SizeOf(Cur) = SizeOf(last.pre) - Cardinality(UniqueTo(last.pre, last.s))

----
(* C2: Contains(s) is true exactly when s is non-empty, the whole path of  *)
(* s exists and its last node is terminal; when only one member has been   *)
(* inserted, none of its proper prefixes is contained; Contains("") is     *)
(* always false.                                                           *)
C2_ContainsIffTerminalPath ==
  /\ \A s \in Queries :
        ContainsOf(Cur, s) = (s # <<>> /\ HasPath(Cur, s) /\ NodeAt(Cur, s).leaf)
  /\ ~ContainsOf(Cur, <<>>)
  /\ (IsCall("Add") /\ OnEmpty) =>
        \A q \in Prefixes(last.s) \ {last.s} : ~ContainsOf(Cur, q)

\* a proper prefix of the only member has a path and is not contained
C2_Witness ==
  /\ IsCall("Add") /\ OnEmpty /\ Len(last.s) = 2
  /\ HasPath(Cur, SubSeq(last.s, 1, 1))
  /\ ContainsOf(Cur, last.s)
  /\ ~ContainsOf(Cur, SubSeq(last.s, 1, 1))

----
(* The values a pattern string denotes, read off the pattern itself. *)

\* the positions of the non-digit runes of pattern s, in order
LetterPositions(s) ==
  LET idx == {i \in 1..Len(s) : ~IsDigit(s[i])}
      RECURSIVE sorted(_)
      sorted(S) ==
        IF S = {} THEN <<>>
        ELSE LET m == CHOOSE x \in S : \A y \in S : x <= y IN <<m>> \o sorted(S \ {m})
  IN sorted(idx)

\* the value of the rune at position i of pattern s: the digit right after it, or 0
DigitAfter(s, i) == IF i < Len(s) /\ IsDigit(s[i + 1]) THEN s[i + 1] - 48 ELSE 0

\* one value per non-digit rune of s
LetterValues(s) ==
  LET at == LetterPositions(s) IN [k \in 1..Len(at) |-> DigitAfter(s, at[k])]

\* the digit at position 0 of s, or 0 when s does not begin with a digit
LeadingDigit(s) == IF s # <<>> /\ IsDigit(s[1]) THEN s[1] - 48 ELSE 0

----
(* C3: AddPatternString(p) into an empty value trie, p made of single-byte *)
(* letters and digits with at least one letter, inserts the string of p's  *)
(* non-digit runes with exactly one value per rune: the digit right after  *)
(* it, or 0; a digit at position 0 becomes the prefix value of the first   *)
(* node and no other digit produces a node.                                *)
C3_PatternDecoding ==
  (/\ kind = "ValueTrie" /\ IsCall("AddPatternString") /\ OnEmpty
   /\ pure(last.s) # <<>>
   /\ \A i \in 1..Len(last.s) : Len(EncodeRune(last.s[i])) = 1) =>
     LET word == pure(last.s)
         vals == LetterValues(last.s)
     IN /\ ValueTrie_buildMembers(vtrie, <<>>) = {word}
        /\ Paths(vtrie) = Prefixes(word) \ {<<>>}
        /\ \A k \in 1..Len(word) :
              LET n == NodeAt(vtrie, SubSeq(word, 1, k))
              IN /\ n.value = vals[k]
                 /\ n.prefixValue = (IF k = 1 THEN LeadingDigit(last.s) ELSE 0)

\* "5a1b0" into an empty trie: a leading digit, a letter followed by a digit,
\* a letter followed by the digit 0
C3_Witness ==
  /\ kind = "ValueTrie" /\ IsCall("AddPatternString") /\ OnEmpty
  /\ last.s = <<53, 97, 49, 98, 48>>
  /\ NodeAt(vtrie, <<97>>).value = 1
  /\ NodeAt(vtrie, <<97>>).prefixValue = 5
  /\ NodeAt(vtrie, <<97, 98>>).value = 0
  /\ ValueTrie_Contains(vtrie, <<97, 98>>)

----
(* C4: after several AddPatternString calls, the values reported for a     *)
(* member (by the exact lookup and by AllSubstringsAndValues) are the ones *)
(* decoded from that member's own pattern, also when the member shares a   *)
(* prefix with a pattern added earlier.                                    *)

\* the values pattern s denotes: the leading digit, if any, then one per letter
OwnValues(s) ==
  (IF patternHasPrefixValue(s) THEN <<LeadingDigit(s)>> ELSE <<>>) \o LetterValues(s)

\* no node of p carries a prefix value
NoPrefixValues(p) == \A q \in Paths(p) : NodeAt(p, q).prefixValue = 0

C4_ValuesOfOwnPattern ==
  (/\ kind = "ValueTrie" /\ IsCall("AddPatternString")
   /\ pure(last.s) # <<>>
   /\ ~patternHasPrefixValue(last.s)
   /\ ~ValueTrie_Contains(last.pre, pure(last.s))
   /\ NoPrefixValues(vtrie)) =>
     LET word == pure(last.s)
         found == AllSubstringsAndValues(vtrie, word)
     IN /\ ValuesForString(vtrie, word) = [values |-> OwnValues(last.s), ok |-> TRUE]
        /\ \A k \in 1..Len(found) :
              found[k].str = word => found[k].values = OwnValues(last.s)

----
(* C5: AllSubstrings(s) and AllSubstringsAndValues(s) scan every start     *)
(* offset i of s and report, for each i, every member that is a prefix of  *)
(* s[i:], by increasing offset and, within one offset, increasing length;  *)
(* a member that occurs in s only at an offset above 0 is reported.        *)

\* the members of p that are prefixes of r, shortest first
PrefixMatches(p, r) ==
  LET RECURSIVE upTo(_)
      upTo(n) ==
        IF n = 0 THEN <<>>
        ELSE upTo(n - 1) \o
             (IF ValueTrie_Contains(p, SubSeq(r, 1, n)) THEN <<SubSeq(r, 1, n)>> ELSE <<>>)
  IN upTo(Len(r))

\* PrefixMatches of every suffix of s, by increasing offset
ScanMatches(p, s) ==
  LET RECURSIVE from(_)
      from(i) ==
        IF i >= Len(s) THEN <<>>
        ELSE PrefixMatches(p, SubSeq(s, i + 1, Len(s))) \o from(i + 1)
  IN from(0)

----
(* C6: AllSubstrings(s) returns exactly the members that are prefixes of s *)
(* itself (start offset 0), in increasing length, and nothing else.        *)
C6_OnlyPrefixesOfQuery ==
  kind = "ValueTrie" =>
    \A q \in Queries : AllSubstrings(vtrie, q) = PrefixMatches(vtrie, q)

----
(* C7: round trip: Add(s, v) into an empty value trie, s non-empty and     *)
(* len(v) = len(s) or len(s)+1, then ValuesForString(s) returns exactly v  *)
(* with ok = true.                                                         *)
RoundTripCase ==
  /\ kind = "ValueTrie" /\ IsCall("Add") /\ OnEmpty
  /\ last.s # <<>>
  /\ Len(last.v) \in {Len(last.s), Len(last.s) + 1}

C7_RoundTrip ==
  RoundTripCase => ValuesForString(vtrie, last.s) = [values |-> last.v, ok |-> TRUE]

(* C7 as amended: the round trip returns v, except that a prefix value of  *)
(* 0 (len(v) = len(s)+1 and v[0] = 0) is not stored and the lookup returns *)
(* v without its first element; ok = true in both cases.                   *)
C7_RoundTripNonZeroPrefix ==
  RoundTripCase =>
     LET back == IF Len(last.v) = Len(last.s) + 1 /\ last.v[1] = 0
                 THEN Tail(last.v) ELSE last.v
     IN ValuesForString(vtrie, last.s) = [values |-> back, ok |-> TRUE]

\* a prefixed insertion with a non-zero prefix value came back whole
C7_Witness ==
  /\ RoundTripCase
  /\ Len(last.s) = 3 /\ Len(last.v) = 4 /\ last.v[1] # 0 /\ last.v[4] # 0
  /\ ValuesForString(vtrie, last.s).values = last.v

----
(* C8: a pattern string that begins with a digit d stores the number d     *)
(* (not a character code) as the prefix value, and d is the first element  *)
(* of the values retrieved for the member.                                 *)
C8_LeadingDigitIsNumber ==
  (IsCall("AddPatternString") /\ OnEmpty
   /\ patternHasPrefixValue(last.s) /\ pure(last.s) # <<>>) =>
     IF kind = "Trie"
     THEN last.v = <<LeadingDigit(last.s)>> \o LetterValues(last.s)
     ELSE ValuesForString(vtrie, pure(last.s)) =
            [values |-> <<LeadingDigit(last.s)>> \o LetterValues(last.s), ok |-> TRUE]

----
(* C9: when Add(s, values) carries a prefix value (len(values) = len(s)+1) *)
(* or AddPatternString gets a pattern starting with a digit, every node    *)
(* the call creates stores the value aligned with its own code point, also *)
(* when the first node or a longer prefix of the path already existed.     *)
C9_CreatedNodesAligned ==
  kind = "ValueTrie" =>
    /\ (IsCall("Add") /\ last.s # <<>> /\ Len(last.v) = Len(last.s) + 1) =>
          \A i \in 1..Len(last.s) :
             ~HasPath(last.pre, SubSeq(last.s, 1, i)) =>
                NodeAt(vtrie, SubSeq(last.s, 1, i)).value = last.v[i + 1]
    /\ (IsCall("AddPatternString") /\ patternHasPrefixValue(last.s)) =>
          LET word == pure(last.s)
          IN \A i \in 1..Len(word) :
                ~HasPath(last.pre, SubSeq(word, 1, i)) =>
                   NodeAt(vtrie, SubSeq(word, 1, i)).value = LetterValues(last.s)[i]

----
(* C10: first write wins: a value-trie node that a later Add,              *)
(* AddPatternString or Remove leaves in place keeps its value and its      *)
(* prefixValue; re-adding a member with other values leaves the result of  *)
(* ValuesForString for it unchanged.                                       *)
C10_FirstWriteWins ==
  (kind = "ValueTrie" /\ ~IsCall("new")) =>
    /\ \A q \in Paths(last.pre) \cap Paths(vtrie) :
          /\ NodeAt(vtrie, q).value = NodeAt(last.pre, q).value
          /\ NodeAt(vtrie, q).prefixValue = NodeAt(last.pre, q).prefixValue
    /\ LET word == IF IsCall("AddPatternString") THEN pure(last.s) ELSE last.s
       IN (~IsCall("Remove") /\ ValueTrie_Contains(last.pre, word)) =>
             ValuesForString(vtrie, word) = ValuesForString(last.pre, word)

\* a member was re-added with values other than the stored ones
C10_Witness ==
  /\ kind = "ValueTrie" /\ IsCall("Add")
  /\ ValueTrie_Contains(last.pre, last.s)
  /\ Len(last.v) = Len(last.s)
  /\ ValuesForString(last.pre, last.s).values # last.v
  /\ ValuesForString(vtrie, last.s).values # last.v

----
(* C11: LongestSubstring(s) returns the longest prefix of s whose whole    *)
(* path exists, terminal or not (s itself when the path of all of s        *)
(* exists), with the values accumulated along that prefix: the same        *)
(* prefix-value-then-value sequence ValuesForString accumulates for it.    *)
C11_LongestPathPrefix ==
  kind = "ValueTrie" =>
    \A q \in Queries :
       LET res == LongestSubstring(vtrie, q)
           n == Len(res.str)
       IN /\ IsPrefix(res.str, q)
          /\ HasPath(vtrie, res.str)
          /\ HasPath(vtrie, q) => res.str = q
          /\ n < Len(q) => ~HasPath(vtrie, SubSeq(q, 1, n + 1))
          /\ res.values = ValuesForString(vtrie, res.str).values

\* "a" is a member, "ab" is a path that ends at no member, and the search
\* for "ab" goes past the member to the end of the path
C11_Witness ==
  /\ kind = "ValueTrie"
  /\ ValueTrie_Contains(vtrie, <<97>>)
  /\ HasPath(vtrie, <<97, 98, 97>>)
  /\ ~ValueTrie_Contains(vtrie, <<97, 98>>)
  /\ LongestSubstring(vtrie, <<97, 98, 98>>).str = <<97, 98>>
  /\ Len(LongestSubstring(vtrie, <<97, 98, 98>>).values) = 3

----
(* C12: pattern round trip through PatternMembers: after                   *)
(* AddPatternString(p) into an empty value trie, p written without zero    *)
(* digits, with or without a leading prefix digit, PatternMembers(false)   *)
(* returns exactly [p] and PatternMembers(true) returns the pattern with   *)
(* every character followed by its value digit, zeroes included.           *)

\* a pattern of single-byte letters and non-zero digits, with a letter and
\* without two digits in a row
PlainPattern(s) ==
  /\ pure(s) # <<>>
  /\ \A i \in 1..Len(s) : Len(EncodeRune(s[i])) = 1 /\ s[i] # 48
  /\ \A i \in 1..(Len(s) - 1) : ~(IsDigit(s[i]) /\ IsDigit(s[i + 1]))

\* pattern s with the value digit written after every letter
FullPattern(s) ==
  LET word == pure(s)
      vals == LetterValues(s)
      RECURSIVE from(_)
      from(k) == IF k > Len(word) THEN <<>> ELSE <<word[k], 48 + vals[k]>> \o from(k + 1)
  IN (IF patternHasPrefixValue(s) THEN <<s[1]>> ELSE <<>>) \o from(1)

C12_PatternMembersRoundTrip ==
  (kind = "ValueTrie" /\ IsCall("AddPatternString") /\ OnEmpty /\ PlainPattern(last.s)) =>
     /\ PatternMembers(vtrie, FALSE) = {last.s}
     /\ PatternMembers(vtrie, TRUE) = {FullPattern(last.s)}

----
(* C13: after any sequence of Add and Remove, Size() equals the number of  *)
(* distinct non-empty prefixes of the members currently contained, shared  *)
(* prefixes counted once.                                                  *)

\* the non-empty prefixes of the members of p
MemberPrefixes(p) == UNION {Prefixes(m) \ {<<>>} : m \in MembersOf(p)}

C13_SizeCountsMemberPrefixes ==
  SizeOf(Cur) = Cardinality(MemberPrefixes(Cur))

\* two members of two runes share their first node: three nodes; removing
\* one of them leaves two
C13_Witness ==
  /\ kind = "Trie" /\ IsCall("Remove")
  /\ Cardinality(MembersOf(last.pre)) = 2
  /\ SizeOf(last.pre) = 3
  /\ SizeOf(Cur) = 2
  /\ Cardinality(MembersOf(Cur)) = 1

----
(* C14: Add is idempotent: adding a string that is already a member        *)
(* changes no node, so Size(), Members() and Contains(t) for every t are   *)
(* the same after the second Add(s) as after the first.                    *)
C14_AddIdempotent ==
  (IsCall("Add") /\ ContainsOf(last.pre, last.s)) =>
     /\ Cur = last.pre
     /\ SizeOf(Cur) = SizeOf(last.pre)
     /\ MembersOf(Cur) = MembersOf(last.pre)
     /\ \A q \in Queries : ContainsOf(Cur, q) = ContainsOf(last.pre, q)

\* a member of two runes was added again to a trie that has another member
C14_Witness ==
  /\ kind = "Trie" /\ IsCall("Add")
  /\ Len(last.s) = 2
  /\ ContainsOf(last.pre, last.s)
  /\ Cardinality(MembersOf(last.pre)) = 2
  /\ ContainsOf(Cur, last.s)

----
(* C15: ValueTrie.Add(s, values) with a value sequence whose length is     *)
(* neither len(s) nor len(s)+1 fails and leaves the trie unchanged; it     *)
(* never inserts s with padded, truncated or shifted values.               *)
C15_MismatchedLengthRejected ==
  (/\ kind = "ValueTrie" /\ IsCall("Add")
   /\ last.s # <<>>
   /\ Len(last.v) \notin {Len(last.s), Len(last.s) + 1}) =>
     /\ vtrie = last.pre
     /\ ValueTrie_Contains(vtrie, last.s) = ValueTrie_Contains(last.pre, last.s)

----
(* C16: the root is never terminal: after any sequence of Add,             *)
(* AddPatternString (the empty pattern and a pattern made only of digits   *)
(* included) and Remove, the empty string is not a member by any observer: *)
(* Contains("") is false, Members() does not list "" and                   *)
(* ValuesForString("") returns ok = false.                                 *)
C16_RootNeverTerminal ==
  /\ ~Cur.leaf
  /\ ~ContainsOf(Cur, <<>>)
  /\ <<>> \notin MembersOf(Cur)
  /\ kind = "ValueTrie" => ~ValuesForString(vtrie, <<>>).ok

----
(* C17: every operation, ValueTrie.Add and ValueTrie.AddPatternString      *)
(* included, runs as one sequential walk in the caller's thread: no        *)
(* operation starts a second thread of execution or waits on a hand-off    *)
(* from one.                                                               *)

\* the caller is blocked in a receive until the goroutine sends or closes
CallerWaits == call.pc \in {"recv", "recv2"} /\ ~CanRecv

C17_SingleThreaded ==
  /\ call.prod = "none"
  /\ ~CallerWaits

----
(* C18: the pattern decoding rule works per code point, not per byte: a    *)
(* non-digit code point whose UTF-8 encoding is longer than one byte and   *)
(* that is immediately followed by a digit gets that digit as its value,   *)
(* exactly like a single-byte character.                                   *)
C18_DecodingPerCodePoint ==
  (kind = "ValueTrie" /\ IsCall("AddPatternString") /\ OnEmpty) =>
     LET word == pure(last.s)
         at == LetterPositions(last.s)
     IN \A k \in 1..Len(word) :
           (Len(EncodeRune(word[k])) > 1 /\ at[k] < Len(last.s) /\ IsDigit(last.s[at[k] + 1])) =>
              NodeAt(vtrie, SubSeq(word, 1, k)).value = last.s[at[k] + 1] - 48

----
(* C19: no dead nodes: in every state reachable by any sequence of Add and *)
(* Remove (on members, non-members, prefixes and extensions of members),   *)
(* every node below the root is terminal or has at least one child, so     *)
(* every node lies on the path of some member.                             *)
C19_NoDeadNodes ==
  \A q \in Paths(Cur) :
     /\ NodeAt(Cur, q).leaf \/ DOMAIN NodeAt(Cur, q).children # {}
     /\ \E m \in MembersOf(Cur) : IsPrefix(q, m)

\* a member of two runes was removed, its nodes were pruned and the nodes
\* of another member are left
C19_Witness ==
  /\ IsCall("Remove") /\ Len(last.s) = 2
  /\ ContainsOf(last.pre, last.s)
  /\ ~HasPath(Cur, last.s)
  /\ Paths(Cur) # {}

----
(* C20: Remove(s) of a string that is not a member (no path, a pure prefix *)
(* of a member, or an extension of a member) leaves the trie unchanged:    *)
(* the set of members, Size() and all stored values are the same before    *)
(* and after.                                                              *)
C20_RemoveNonMemberNoChange ==
  (IsCall("Remove") /\ ~ContainsOf(last.pre, last.s)) =>
     /\ MembersOf(Cur) = MembersOf(last.pre)
     /\ SizeOf(Cur) = SizeOf(last.pre)
     /\ Cur = last.pre

----
(* C21: in ValueTrie.Add and ValueTrie.AddPatternString, under every       *)
(* interleaving of the value-producing goroutine and the caller, the       *)
(* values channel is closed exactly once and no value is sent on it after  *)
(* it is closed, also when the caller consumes fewer values than were      *)
(* produced.                                                               *)

\* the insertion has returned and its goroutine has ended
CallOver == call.pc = "idle" /\ call.prod = "done"

C21_ClosedOnceNoSendAfterClose ==
  /\ call.closes <= 1
  /\ call.lateSends = 0
  /\ CallOver => call.closes = 1

----
(* C22: a prefix value belongs to the pattern that carried it: for a       *)
(* member s that was added without a prefix value, ValuesForString(s) and  *)
(* LongestSubstring(s) return exactly len(s) values, also when another     *)
(* member with the same first character was added with a non-zero prefix   *)
(* value.                                                                  *)

\* the last call made a new member of a string given without a prefix value
AddedWithoutPrefix(word) ==
  /\ kind = "ValueTrie"
  /\ word # <<>>
  /\ ~ValueTrie_Contains(last.pre, word)
  /\ \/ IsCall("Add") /\ word = last.s /\ Len(last.v) = Len(last.s)
     \/ IsCall("AddPatternString") /\ word = pure(last.s) /\ ~patternHasPrefixValue(last.s)

C22_PrefixValueStaysWithItsPattern ==
  \A word \in Queries :
     AddedWithoutPrefix(word) =>
        /\ ValuesForString(vtrie, word).ok
        /\ Len(ValuesForString(vtrie, word).values) = Len(word)
        /\ LongestSubstring(vtrie, word).str = word
        /\ Len(LongestSubstring(vtrie, word).values) = Len(word)

====
